---- MODULE Spec2Model ----
(***************************************************************************)
(* A model of graphqlinsights' scanner (pkg/lexer) and recursive-descent   *)
(* parser (pkg/parser).                                                    *)
(*                                                                         *)
(* A Go string is modelled as a sequence of one-character strings, so that *)
(* indexing and slicing are what the code does.  Go indices are 0-based:   *)
(* l.input[i] is input[i + 1] here, and l.input[lo:hi] is GoSlice.          *)
(***************************************************************************)
EXTENDS Integers, Sequences, FiniteSets, TLC

VARIABLES
    lexer,      \* the Lexer struct: [input, position, currentChar]
    curr,       \* Parser.curr, the lookahead token
    stack,      \* the call stack of ParseQuery / ParseField / ParseDirective
    status,     \* where the call stands: new, running, done, panic, spin, crash,
                \* lexing
    result,     \* <<n>> once ParseQuery has returned the node n, <<>> before
    err,        \* <<v>> once eat has panicked with the value v, <<>> before
    toks,       \* history: every token NextToken has returned, with its span
    nEat,       \* history: the number of eat calls that matched
    printed,    \* <<s>> once Print has rendered the returned tree as s
    eventQueue, \* the events in the channel eventQueue, oldest first
    pool,       \* the workers: what each one is doing, its event and its p
    parsers,    \* the Parser objects the workers have made, each with its Lexer
    events,     \* history: what the handler and the workers did to each event
    proc        \* the program: "up", "down" once a panic has ended it, or
                \* "off" where no worker pool is run

\* The variables of the worker pool, and their values where none is run.
poolVars == <<eventQueue, pool, parsers, events, proc>>

NoPool ==
    /\ eventQueue = <<>>
    /\ pool = <<>>
    /\ parsers = <<>>
    /\ events = <<>>
    /\ proc = "off"

\* The variables of one parse call and its history.
callVars == <<lexer, curr, stack, status, result, err, toks, nEat, printed>>

vars == <<callVars, poolVars>>

\* Token{Type, Value}
Token(t, v) == [Type |-> t, Value |-> v]

\* The zero value of Token, which Parser.curr holds before NewParser sets it.
NoToken == [Type |-> "", Value |-> <<>>]

(***************************************************************************)
(* Bounds of the model.                                                    *)
(***************************************************************************)
\* Every string over Chars of at most this length is an input.
MaxShort == 3
\* A client of the scanner calls NextToken at most this many times.
MaxCalls == 6
\* The width in bits of Go's int, the type of Lexer.position.  The compiler
\* gives it 64 bits (32 on some targets); the model gives it fewer, and still
\* more than the longest input needs.
IntBits == 7

\* The workers main starts (5 in the code), and the events the handler puts
\* on the queue.
NumWorkers == 2
MaxEvents == 2

\* make(chan AnalyticsData, 100)
QueueCap == 100

(***************************************************************************)
(* pkg/lexer/lexer.go                                                      *)
(***************************************************************************)
TokenBraceL == "{"
TokenBraceR == "}"
TokenParenL == "("
TokenParenR == ")"
TokenColon  == ":"
TokenAt     == "@"
TokenString == "STRING"
TokenIdent  == "IDENT"
TokenEOF    == "EOF"

TokenTypes ==
    {TokenBraceL, TokenBraceR, TokenParenL, TokenParenR, TokenColon, TokenAt,
     TokenString, TokenIdent, TokenEOF}


\* rune 0, which readChar stores once the input is exhausted
NUL == "NUL"
Quote == "\""

\* The input is a UTF-8 text, and l.input[l.position] is one byte of it.  A
\* byte below 0x80 is its character.  ByteC3 and ByteA9 are the bytes 0xC3 and
\* 0xA9, which together encode the letter U+00E9; rune(b) of a byte b is the
\* character U+00b, so that rune(0xC3) is the letter U+00C3 and rune(0xA9) is
\* the sign U+00A9.
ByteC3 == "C3"
ByteA9 == "A9"

AsciiLetters == {"a", "b", "B"}
LetterChars == AsciiLetters \cup {ByteC3}
DigitChars  == {"1"}
SpaceChars  == {" ", "\t", "\n"}

\* isLetter that takes a digit for a letter.
isLetterOrDigit(ch) == ch \in LetterChars \/ ch = "_" \/ ch \in DigitChars

\* unicode.IsLetter(ch) || ch == '_'
isLetter(ch) == ch \in LetterChars \/ ch = "_"

\* unicode.IsDigit(ch)
isDigit(ch) == ch \in DigitChars

\* IsSpace that knows the blank alone.
IsSpaceBlankOnly(ch) == ch = " "

\* unicode.IsSpace(ch)
IsSpace(ch) == ch \in SpaceChars

\* The largest and the smallest int, and the sum of an int and 1 as the
\* machine computes it: the largest int plus 1 is the smallest.
MaxInt == 2^(IntBits - 1) - 1
MinInt == 0 - 2^(IntBits - 1)
Incremented(n) == IF n = MaxInt THEN MinInt ELSE n + 1

\* s[i] and s[lo:hi] of Go; OutOfRange stands for the runtime's panic on an
\* index or a slice bound outside the string
OutOfRange == "OutOfRange"
GoIndex(s, i) ==
    IF 0 <= i /\ i < Len(s) THEN s[i + 1] ELSE OutOfRange
GoSlice(s, lo, hi) ==
    IF 0 <= lo /\ lo <= hi /\ hi <= Len(s)
    THEN SubSeq(s, lo + 1, hi)
    ELSE OutOfRange

\* NewLexer before its readChar: position 0, currentChar 0
LexerZero(input) == [input |-> input, position |-> 0, currentChar |-> NUL]

\* A currentChar of OutOfRange tells that l.input[l.position] has panicked.
readChar(l) ==
    [l EXCEPT
        !.currentChar = IF l.position >= Len(l.input)
                        THEN NUL
                        ELSE GoIndex(l.input, l.position),
        !.position = Incremented(l.position)]

NewLexer(input) == readChar(LexerZero(input))

\* The values a Lexer can take.
Lexers == [input : Seq(STRING), position : Int, currentChar : STRING]

\* for unicode.IsSpace(l.currentChar) { l.readChar() }
SkipSpace[l \in Lexers] ==
    IF IsSpace(l.currentChar) THEN SkipSpace[readChar(l)] ELSE l

\* for isLetter(l.currentChar) || isDigit(l.currentChar) { l.readChar() }
ScanIdent[l \in Lexers] ==
    IF isLetter(l.currentChar) \/ isDigit(l.currentChar)
    THEN ScanIdent[readChar(l)]
    ELSE l

\* for l.currentChar != '"' { l.readChar() }, followed up to the closing quote
\* or, when there is none, up to the first read past the end of the input:
\* from there on readChar stores 0 and the loop goes on.
ScanString[l \in Lexers] ==
    IF l.currentChar = Quote \/ l.position > Len(l.input)
    THEN l
    ELSE ScanString[readChar(l)]

\* The outcome of one NextToken call: the token and the scanner after the call.
\* spin: the call is inside the string loop with no closing quote ahead, and
\* does not return.
Returned(t, l) == [tok |-> t, lexer |-> l, spin |-> FALSE]
Spinning(l) == [tok |-> NoToken, lexer |-> l, spin |-> TRUE]

\* case '"':
StringToken(s) ==
    LET l1 == readChar(s)
        start == l1.position - 1
        l2 == ScanString[l1]
    IN  IF l2.currentChar # Quote
        THEN Spinning(l2)
        ELSE Returned(Token(TokenString, GoSlice(l2.input, start, l2.position)),
                      readChar(l2))

\* default: if isLetter(l.currentChar)
IdentToken(s) ==
    LET start == s.position - 1
        l2 == ScanIdent[s]
    IN  Returned(Token(TokenIdent, GoSlice(l2.input, start, l2.position - 1)), l2)

\* NoLexeme with the character that starts no lexeme skipped.
NoLexemeSkipped(s) == Returned(Token(TokenEOF, <<>>), readChar(s))

\* return Token{TokenEOF, ""} behind the switch: the current character starts
\* no lexeme, and is not read past
NoLexeme(s) == Returned(Token(TokenEOF, <<>>), s)

NextToken(l) ==
    LET s == SkipSpace[l]
        ch == s.currentChar
    IN  CASE ch = "{" -> Returned(Token(TokenBraceL, <<"{">>), readChar(s))
          [] ch = "}" -> Returned(Token(TokenBraceR, <<"}">>), readChar(s))
          [] ch = "(" -> Returned(Token(TokenParenL, <<"(">>), readChar(s))
          [] ch = ")" -> Returned(Token(TokenParenR, <<")">>), readChar(s))
          [] ch = ":" -> Returned(Token(TokenColon, <<":">>), readChar(s))
          [] ch = "@" -> Returned(Token(TokenAt, <<"@">>), readChar(s))
          [] ch = Quote -> StringToken(s)
          [] ch = NUL -> Returned(Token(TokenEOF, <<>>), s)
          [] OTHER -> IF isLetter(ch)
                      THEN IdentToken(s)
                      ELSE NoLexeme(s)

(***************************************************************************)
(* Inputs.                                                                 *)
(***************************************************************************)
Chars ==
    {"{", "}", "(", ")", ":", "@", Quote, "a", "b", "B", "_", "1", " ", "\n", ",",
     ByteC3, ByteA9}

RECURSIVE StringsUpTo(_)
StringsUpTo(n) ==
    IF n = 0
    THEN {<<>>}
    ELSE LET shorter == StringsUpTo(n - 1)
         IN  shorter \cup {Append(s, c) : s \in shorter, c \in Chars}

(***************************************************************************)
(* Seed inputs, written with one-letter names.  A parse call is run on     *)
(* every seed and on every text one edit away from a seed (a character     *)
(* deleted, replaced or inserted), besides every short string.             *)
(***************************************************************************)
\* query GetUser { user(id: "123") { name } } of the tests: a b{a(a:"b"){b}}
Seed1 ==
    <<"a", " ", "b", "{", "a", "(", "a", ":", Quote, "b", Quote, ")", "{",
      "b", "}", "}">>

\* the nested query of the tests: a b{a(a:"1"){b a{b}}}
Seed2 ==
    <<"a", " ", "b", "{", "a", "(", "a", ":", Quote, "1", Quote, ")", "{",
      "b", " ", "a", "{", "b", "}", "}", "}">>

\* a field with an argument and a directive with one: a b{a(a:"b")@a(b:"1"){b}}
Seed3 ==
    <<"a", " ", "b", "{", "a", "(", "a", ":", Quote, "b", Quote, ")", "@",
      "a", "(", "b", ":", Quote, "1", Quote, ")", "{", "b", "}", "}">>

\* two directives on the query, two on a field: a b@a@b{a(a:"")@b@a{b}}
Seed4 ==
    <<"a", " ", "b", "@", "a", "@", "b", "{", "a", "(", "a", ":", Quote,
      Quote, ")", "@", "b", "@", "a", "{", "b", "}", "}">>

\* a directive with three adjacent arguments, one name twice:
\* a b@a(a:"b"b:"a"a:"1"){a b{a{b}}b}
Seed5 ==
    <<"a", " ", "b", "@", "a", "(", "a", ":", Quote, "b", Quote, "b", ":",
      Quote, "a", Quote, "a", ":", Quote, "1", Quote, ")", "{", "a", " ",
      "b", "{", "a", "{", "b", "}", "}", "b", "}">>

\* longer names, whitespace, empty braces: aB _1 @a ( a : "a b" )\n{ a { } b }
Seed6 ==
    <<"a", "B", " ", "_", "1", " ", "@", "a", " ", "(", " ", "a", " ", ":",
      " ", Quote, "a", " ", "b", Quote, " ", ")", "\n", "{", " ", "a", " ",
      "{", " ", "}", " ", "b", " ", "}">>

\* a second argument inside a field's parentheses: a b{a(a:"b"b:"a")}
Seed7 ==
    <<"a", " ", "b", "{", "a", "(", "a", ":", Quote, "b", Quote, "b", ":",
      Quote, "a", Quote, ")", "}">>

\* empty parentheses after a directive and after a field: a b{b@a()a()}
Seed8 ==
    <<"a", " ", "b", "{", "b", "@", "a", "(", ")", "a", "(", ")", "}">>

\* query { } of the spec, the operation name missing: a {}
Seed9 ==
    <<"a", " ", "{", "}">>

\* directive arguments separated by a comma: a b{a@a(a:"b",b:"a")}
Seed10 ==
    <<"a", " ", "b", "{", "a", "@", "a", "(", "a", ":", Quote, "b", Quote,
      ",", "b", ":", Quote, "a", Quote, ")", "}">>

Seeds == {Seed1, Seed2, Seed3, Seed4, Seed5, Seed6, Seed7, Seed8, Seed9, Seed10}

Delete(s, i) == SubSeq(s, 1, i - 1) \o SubSeq(s, i + 1, Len(s))
Replace(s, i, c) == [s EXCEPT ![i] = c]
Insert(s, i, c) == SubSeq(s, 1, i) \o <<c>> \o SubSeq(s, i + 1, Len(s))

Edits(s) ==
    {s}
    \cup {Delete(s, i) : i \in 1..Len(s)}
    \cup {Replace(s, i, c) : i \in 1..Len(s), c \in Chars}
    \cup {Insert(s, i, c) : i \in 0..Len(s), c \in Chars}

Inputs == StringsUpTo(MaxShort) \cup UNION {Edits(s) : s \in Seeds}

(***************************************************************************)
(* History: the token a NextToken call returned, with the 1-based index of *)
(* the first character of its lexeme (after the skipped whitespace) and    *)
(* the scanner's position before and after the call.                       *)
(***************************************************************************)
Logged(l, r) ==
    [Type |-> r.tok.Type, Value |-> r.tok.Value,
     from |-> SkipSpace[l].position,
     before |-> l.position, after |-> r.lexer.position]

(***************************************************************************)
(* A client that calls NextToken over and over (demonstrateLexer without   *)
(* its break at EOF).                                                      *)
(***************************************************************************)
InitLex ==
    /\ \E input \in Inputs : lexer = NewLexer(input)
    /\ curr = NoToken
    /\ stack = <<>>
    /\ status = "lexing"
    /\ result = <<>>
    /\ err = <<>>
    /\ toks = <<>>
    /\ nEat = 0
    /\ printed = <<>>
    /\ NoPool

LexCall ==
    /\ status = "lexing"
    /\ Len(toks) < MaxCalls
    /\ LET r == NextToken(lexer)
       IN  IF r.spin
           THEN /\ status' = "spin"
                /\ lexer' = r.lexer
                /\ toks' = toks
           ELSE /\ status' = status
                /\ lexer' = r.lexer
                /\ toks' = Append(toks, Logged(lexer, r))
    /\ UNCHANGED <<curr, stack, result, err, nEat, printed>>
    /\ UNCHANGED poolVars

\* One more turn of the string loop that no closing quote ends: readChar
\* stores 0 and adds 1 to position, until position has passed the largest int
\* and is negative; then l.input[l.position] is out of range, and the runtime
\* ends the program ("crash").
Spin ==
    /\ status = "spin"
    /\ LET l == readChar(lexer)
       IN  IF l.currentChar = OutOfRange
           THEN /\ status' = "crash"
                /\ lexer' = lexer
           ELSE /\ status' = status
                /\ lexer' = l
    /\ UNCHANGED <<curr, stack, result, err, toks, nEat, printed>>
    /\ UNCHANGED poolVars

NextLex == LexCall \/ Spin

LexSpec == InitLex /\ [][NextLex]_vars

(***************************************************************************)
(* pkg/parser/parser.go                                                    *)
(***************************************************************************)
NodeQuery     == "Query"
NodeField     == "Field"
NodeDirective == "Directive"

\* map[string]string: a function from the keys to their values
EmptyMap == [k \in {} |-> <<>>]
\* MapPut that leaves a key it already holds as it is.
MapPutKeepingFirst(m, k, v) ==
    [x \in DOMAIN m \cup {k} |-> IF x \in DOMAIN m THEN m[x] ELSE v]

\* m[k] = v
MapPut(m, k, v) == [x \in DOMAIN m \cup {k} |-> IF x = k THEN v ELSE m[x]]

\* Node{Type, Name, Arguments, Directives, SelectionSet}; a nil map or slice is
\* the empty one
Node(type, name, args, dirs, sel) ==
    [Type |-> type, Name |-> name, Arguments |-> args,
     Directives |-> dirs, SelectionSet |-> sel]

\* strings.Trim(s, "\""): every leading and every trailing quote goes
RECURSIVE TrimLeft(_)
TrimLeft(s) ==
    IF s # <<>> /\ Head(s) = Quote THEN TrimLeft(Tail(s)) ELSE s

RECURSIVE TrimRight(_)
TrimRight(s) ==
    IF s # <<>> /\ s[Len(s)] = Quote
    THEN TrimRight(SubSeq(s, 1, Len(s) - 1))
    ELSE s

\* Trim that strips the leading quotes only.
TrimLeading(s) == TrimLeft(s)

Trim(s) == TrimRight(TrimLeft(s))

\* PanicValue with its two arguments in the other order.
PanicValueSwapped(t, found) == [expected |-> found.Type, got |-> t]

\* fmt.Sprintf("Unexpected token: expected %s but got %s", t, p.curr.Type)
PanicValue(t, found) == [expected |-> t, got |-> found.Type]

\* Eaten with a mismatch that is recorded and then skipped: the parser goes on
\* with the next token.
EatenRecovering(l, c, t) ==
    LET r == NextToken(l)
    IN  IF r.spin
        THEN [kind |-> "spin", lexer |-> r.lexer, curr |-> c, panic |-> <<>>,
              calls |-> 0]
        ELSE [kind |-> "ok", lexer |-> r.lexer, curr |-> r.tok,
              panic |-> IF c.Type = t THEN <<>> ELSE <<PanicValue(t, c)>>,
              calls |-> 1]

\* Eaten that asks the scanner for the next token before it looks at the
\* lookahead.
EatenScanningFirst(l, c, t) ==
    LET r == NextToken(l)
    IN  IF r.spin
        THEN [kind |-> "spin", lexer |-> r.lexer, curr |-> c, panic |-> <<>>,
              calls |-> 0]
        ELSE IF c.Type = t
             THEN [kind |-> "ok", lexer |-> r.lexer, curr |-> r.tok, panic |-> <<>>,
                   calls |-> 1]
             ELSE [kind |-> "panic", lexer |-> r.lexer, curr |-> c,
                   panic |-> <<PanicValue(t, c)>>, calls |-> 1]

\* p.eat(t) on the parser (l, c): the lookahead matches and NextToken returns
\* the next one ("ok"), matches and NextToken never returns ("spin"), or does
\* not match ("panic").
Eaten(l, c, t) ==
    IF c.Type = t
    THEN LET r == NextToken(l)
         IN  IF r.spin
             THEN [kind |-> "spin", lexer |-> r.lexer, curr |-> c, panic |-> <<>>,
                   calls |-> 0]
             ELSE [kind |-> "ok", lexer |-> r.lexer, curr |-> r.tok, panic |-> <<>>,
                   calls |-> 1]
    ELSE [kind |-> "panic", lexer |-> l, curr |-> c, panic |-> <<PanicValue(t, c)>>,
          calls |-> 0]

\* Frame with the caller's arguments map in place of a new one.
FrameSharingArguments(fn, pc) ==
    [fn |-> fn, pc |-> pc, name |-> <<>>,
     args |-> IF stack = <<>> THEN EmptyMap ELSE Head(stack).args,
     directives |-> <<>>, selectionSet |-> <<>>, argName |-> <<>>]

\* The locals of one activation of ParseQuery, ParseField or ParseDirective,
\* and the place it has reached.
Frame(fn, pc) ==
    [fn |-> fn, pc |-> pc, name |-> <<>>, args |-> EmptyMap, directives |-> <<>>,
     selectionSet |-> <<>>, argName |-> <<>>]

Top == Head(stack)

\* What an activation does next: eat a token and go on as frame f, call
\* ParseField or ParseDirective, or return a node.
EatOp(t, f) == [op |-> "eat", t |-> t, frame |-> f]
CallOp(fn, pc) == [op |-> "call", callee |-> Frame(fn, pc)]
RetOp(n) == [op |-> "ret", node |-> n]

\* argValue := p.curr.Value; p.eat(TokenString);
\* argValue = strings.Trim(argValue, "\""); args[argName] = argValue
StoreArg(f, c) == MapPut(f.args, f.argName, Trim(c.Value))

\* DirectiveNode built with the type of a field.
DirectiveNodeTypedField(f) == Node(NodeField, f.name, f.args, <<>>, <<>>)

DirectiveNode(f) == Node(NodeDirective, f.name, f.args, <<>>, <<>>)
\* FieldNode that keeps the braces of a field with none in them: an unnamed
\* child stands for the empty pair.
FieldNodeBracesKept(f) ==
    Node(NodeField, f.name, f.args, f.directives,
         IF f.pc = "ret" /\ f.selectionSet = <<>>
         THEN <<Node(NodeField, <<>>, EmptyMap, <<>>, <<>>)>>
         ELSE f.selectionSet)

FieldNode(f) == Node(NodeField, f.name, f.args, f.directives, f.selectionSet)
QueryNode(f) == Node(NodeQuery, f.name, EmptyMap, f.directives, f.selectionSet)

ParseDirectiveOp(f, c) ==
    CASE f.pc = "at" -> EatOp(TokenAt, [f EXCEPT !.pc = "name"])
      [] f.pc = "name" ->
            EatOp(TokenIdent, [f EXCEPT !.name = c.Value, !.pc = "args"])
      [] f.pc = "args" ->
            IF c.Type = TokenParenL
            THEN EatOp(TokenParenL, [f EXCEPT !.pc = "argloop"])
            ELSE RetOp(DirectiveNode(f))
      [] f.pc = "argloop" ->
            IF c.Type = TokenIdent
            THEN EatOp(TokenIdent, [f EXCEPT !.argName = c.Value, !.pc = "colon"])
            ELSE EatOp(TokenParenR, [f EXCEPT !.pc = "ret"])
      [] f.pc = "colon" -> EatOp(TokenColon, [f EXCEPT !.pc = "argval"])
      [] f.pc = "argval" ->
            EatOp(TokenString, [f EXCEPT !.args = StoreArg(f, c), !.pc = "argloop"])
      [] f.pc = "ret" -> RetOp(DirectiveNode(f))

\* ParseField from its directive loop on
FieldTailOp(f, c) ==
    IF c.Type = TokenAt
    THEN CallOp("ParseDirective", "at")
    ELSE IF c.Type = TokenBraceL
         THEN EatOp(TokenBraceL, [f EXCEPT !.pc = "fields"])
         ELSE RetOp(FieldNode(f))

\* ParseFieldOp with the argument loop of ParseDirective: behind an argument,
\* an identifier starts the next one.
ParseFieldOpArgumentLoop(f, c) ==
    CASE f.pc = "name" ->
            EatOp(TokenIdent, [f EXCEPT !.name = c.Value, !.pc = "args"])
      [] f.pc = "args" ->
            IF c.Type = TokenParenL
            THEN EatOp(TokenParenL, [f EXCEPT !.pc = "argname"])
            ELSE FieldTailOp(f, c)
      [] f.pc = "argname" ->
            EatOp(TokenIdent, [f EXCEPT !.argName = c.Value, !.pc = "colon"])
      [] f.pc = "colon" -> EatOp(TokenColon, [f EXCEPT !.pc = "argval"])
      [] f.pc = "argval" ->
            EatOp(TokenString, [f EXCEPT !.args = StoreArg(f, c), !.pc = "close"])
      [] f.pc = "close" ->
            IF c.Type = TokenIdent
            THEN EatOp(TokenIdent, [f EXCEPT !.argName = c.Value, !.pc = "colon"])
            ELSE EatOp(TokenParenR, [f EXCEPT !.pc = "dirs"])
      [] f.pc = "dirs" -> FieldTailOp(f, c)
      [] f.pc = "fields" ->
            IF c.Type = TokenIdent
            THEN CallOp("ParseField", "name")
            ELSE EatOp(TokenBraceR, [f EXCEPT !.pc = "ret"])
      [] f.pc = "ret" -> RetOp(FieldNode(f))

ParseFieldOp(f, c) ==
    CASE f.pc = "name" ->
            EatOp(TokenIdent, [f EXCEPT !.name = c.Value, !.pc = "args"])
      [] f.pc = "args" ->
            IF c.Type = TokenParenL
            THEN EatOp(TokenParenL, [f EXCEPT !.pc = "argname"])
            ELSE FieldTailOp(f, c)
      [] f.pc = "argname" ->
            EatOp(TokenIdent, [f EXCEPT !.argName = c.Value, !.pc = "colon"])
      [] f.pc = "colon" -> EatOp(TokenColon, [f EXCEPT !.pc = "argval"])
      [] f.pc = "argval" ->
            EatOp(TokenString, [f EXCEPT !.args = StoreArg(f, c), !.pc = "close"])
      [] f.pc = "close" -> EatOp(TokenParenR, [f EXCEPT !.pc = "dirs"])
      [] f.pc = "dirs" -> FieldTailOp(f, c)
      [] f.pc = "fields" ->
            IF c.Type = TokenIdent
            THEN CallOp("ParseField", "name")
            ELSE EatOp(TokenBraceR, [f EXCEPT !.pc = "ret"])
      [] f.pc = "ret" -> RetOp(FieldNode(f))

\* KeywordOp that takes no identifier but "a" for the keyword.
KeywordOpChecked(f, c) ==
    IF c.Value = <<"a">>
    THEN EatOp(TokenIdent, [f EXCEPT !.pc = "name"])
    ELSE EatOp(TokenEOF, f)

\* p.eat(lexer.TokenIdent) // eat "query"
KeywordOp(f, c) == EatOp(TokenIdent, [f EXCEPT !.pc = "name"])

\* QueryEndOp that asks for the end of the input behind the closing brace.
QueryEndOpAtEof(f, c) ==
    IF c.Type = TokenEOF THEN RetOp(QueryNode(f)) ELSE EatOp(TokenEOF, f)

\* return &Node{...} of ParseQuery, right behind p.eat(lexer.TokenBraceR)
QueryEndOp(f, c) == RetOp(QueryNode(f))

ParseQueryOp(f, c) ==
    CASE f.pc = "kw" -> KeywordOp(f, c)
      [] f.pc = "name" ->
            EatOp(TokenIdent, [f EXCEPT !.name = c.Value, !.pc = "dirs"])
      [] f.pc = "dirs" ->
            IF c.Type = TokenAt
            THEN CallOp("ParseDirective", "at")
            ELSE EatOp(TokenBraceL, [f EXCEPT !.pc = "fields"])
      [] f.pc = "fields" ->
            IF c.Type = TokenIdent
            THEN CallOp("ParseField", "name")
            ELSE EatOp(TokenBraceR, [f EXCEPT !.pc = "ret"])
      [] f.pc = "ret" -> QueryEndOp(f, c)

\* Appended with the returned field put in front of the selection set.
AppendedFieldInFront(f, n) ==
    IF f.pc = "fields"
    THEN [f EXCEPT !.selectionSet = <<n>> \o f.selectionSet]
    ELSE [f EXCEPT !.directives = Append(f.directives, n)]

\* Appended with the returned directive put in front of the directives.
AppendedDirectiveInFront(f, n) ==
    IF f.pc = "fields"
    THEN [f EXCEPT !.selectionSet = Append(f.selectionSet, n)]
    ELSE [f EXCEPT !.directives = <<n>> \o f.directives]

\* directives = append(directives, p.ParseDirective()) and
\* selectionSet = append(selectionSet, p.ParseField()) in the caller f
Appended(f, n) ==
    IF f.pc = "fields"
    THEN [f EXCEPT !.selectionSet = Append(f.selectionSet, n)]
    ELSE [f EXCEPT !.directives = Append(f.directives, n)]

\* The parser and its history as one value.
Now ==
    [lexer |-> lexer, curr |-> curr, stack |-> stack, status |-> status,
     result |-> result, err |-> err, toks |-> toks, nEat |-> nEat]

\* p.eat(o.t) with the outcome e, after which the top activation goes on as
\* o.frame
AfterEat(o, e) ==
    IF e.kind = "ok"
    THEN [Now EXCEPT
            !.lexer = e.lexer,
            !.curr = e.curr,
            !.err = err \o e.panic,
            !.stack = <<o.frame>> \o Tail(stack),
            !.toks = Append(toks, Logged(lexer, [tok |-> e.curr, lexer |-> e.lexer])),
            !.nEat = nEat + 1]
    ELSE [Now EXCEPT
            !.lexer = e.lexer,
            !.status = e.kind,
            !.err = err \o e.panic]

\* p.ParseField() or p.ParseDirective() is entered
AfterCall(o) == [Now EXCEPT !.stack = <<o.callee>> \o stack]

\* return &Node{...}: to the caller, which appends the node, or out of
\* ParseQuery
AfterRet(o) ==
    IF Len(stack) = 1
    THEN [Now EXCEPT !.stack = <<>>, !.result = <<o.node>>, !.status = "done"]
    ELSE [Now EXCEPT !.stack = <<Appended(stack[2], o.node)>> \o Tail(Tail(stack))]

\* The step to the state n.
Step(n) ==
    \E m \in {n} :
        /\ lexer' = m.lexer
        /\ curr' = m.curr
        /\ stack' = m.stack
        /\ status' = m.status
        /\ result' = m.result
        /\ err' = m.err
        /\ toks' = m.toks
        /\ nEat' = m.nEat
        /\ printed' = printed
        /\ UNCHANGED poolVars

\* The top activation does o.
Do(o) ==
    \E op \in {o} :
        CASE op.op = "eat" ->
                \E e \in {Eaten(lexer, curr, op.t)} : Step(AfterEat(op, e))
          [] op.op = "call" -> Step(AfterCall(op))
          [] op.op = "ret" -> Step(AfterRet(op))

Init ==
    /\ \E input \in Inputs : lexer = LexerZero(input)
    /\ curr = NoToken
    /\ stack = <<>>
    /\ status = "new"
    /\ result = <<>>
    /\ err = <<>>
    /\ toks = <<>>
    /\ nEat = 0
    /\ printed = <<>>
    /\ NoPool

\* p := parser.NewParser(input); p.ParseQuery() is entered
NewParser ==
    /\ status = "new"
    /\ LET lex == NewLexer(lexer.input)
           r == NextToken(lex)
       IN  IF r.spin
           THEN /\ status' = "spin"
                /\ lexer' = r.lexer
                /\ UNCHANGED <<curr, stack, toks>>
           ELSE /\ status' = "running"
                /\ lexer' = r.lexer
                /\ curr' = r.tok
                /\ stack' = <<Frame("ParseQuery", "kw")>>
                /\ toks' = Append(toks, Logged(lex, r))
    /\ UNCHANGED <<result, err, nEat, printed>>
    /\ UNCHANGED poolVars

ParseQuery ==
    /\ status = "running"
    /\ Top.fn = "ParseQuery"
    /\ Do(ParseQueryOp(Top, curr))

ParseField ==
    /\ status = "running"
    /\ Top.fn = "ParseField"
    /\ Do(ParseFieldOp(Top, curr))

ParseDirective ==
    /\ status = "running"
    /\ Top.fn = "ParseDirective"
    /\ Do(ParseDirectiveOp(Top, curr))

\* The panic of eat leaves the activations one by one; nothing recovers it.
Unwind ==
    /\ status = "panic"
    /\ stack # <<>>
    /\ stack' = Tail(stack)
    /\ UNCHANGED <<lexer, curr, status, result, err, toks, nEat, printed>>
    /\ UNCHANGED poolVars

(***************************************************************************)
(* Node.Print.  A text is a sequence of characters; the constant parts of  *)
(* the formats are written out.                                            *)
(***************************************************************************)
TwoSpaces == <<" ", " ">>
NewLine == <<"\n">>

\* string(n.Type)
TypeText(t) ==
    CASE t = NodeQuery -> <<"Q", "u", "e", "r", "y">>
      [] t = NodeField -> <<"F", "i", "e", "l", "d">>
      [] t = NodeDirective -> <<"D", "i", "r", "e", "c", "t", "i", "v", "e">>

\* fmt.Sprintf("%s%s: %s\n", indent, n.Type, n.Name)
HeadLine(indent, n) == indent \o TypeText(n.Type) \o <<":", " ">> \o n.Name \o NewLine

\* fmt.Sprintf("%s  Arg: %s = %s\n", indent, argName, argValue)
ArgLine(indent, argName, argValue) ==
    indent \o TwoSpaces \o <<"A", "r", "g", ":", " ">> \o argName
        \o <<" ", "=", " ">> \o argValue \o NewLine

\* fmt.Sprintf("%s  Directive: @%s\n", indent, directive.Name)
DirectiveLine(indent, d) ==
    indent \o TwoSpaces
        \o <<"D", "i", "r", "e", "c", "t", "i", "v", "e", ":", " ", "@">>
        \o d.Name \o NewLine

\* The orders in which a range over a map with the keys S may visit them: the
\* language leaves the order open, and it differs from one range to the next.
RangeOrders(S) ==
    {o \in [1..Cardinality(S) -> S] : \A k \in S : \E i \in DOMAIN o : o[i] = k}

\* The texts made of one text of each set of ss, in the order of ss.
JoinedOf[ss \in Seq(SUBSET Seq(STRING))] ==
    IF ss = <<>> THEN {<<>>}
    ELSE {h \o t : h \in Head(ss), t \in JoinedOf[Tail(ss)]}

Joined(ss) == JoinedOf[ss]

\* for argName, argValue := range args { result += ... }
ArgLines(indent, args) ==
    UNION {Joined([i \in DOMAIN o |-> {ArgLine(indent, o[i], args[o[i]])}]) :
              o \in RangeOrders(DOMAIN args)}

\* The lines of one directive: its name, and its arguments two spaces deeper.
DirectiveLines(indent, d) ==
    Joined(<<{DirectiveLine(indent, d)}, ArgLines(indent \o TwoSpaces, d.Arguments)>>)

\* The texts n.Print(indent) can return.
RECURSIVE Printable(_, _)
Printable(n, indent) ==
    Joined(<<{HeadLine(indent, n)},
             ArgLines(indent, n.Arguments),
             Joined([i \in 1..Len(n.Directives) |->
                        DirectiveLines(indent, n.Directives[i])]),
             Joined([i \in 1..Len(n.SelectionSet) |->
                        Printable(n.SelectionSet[i], indent \o TwoSpaces)])>>)

\* result.Print("") on the tree ParseQuery has returned
NodePrint ==
    /\ status = "done"
    /\ printed = <<>>
    /\ \E s \in Printable(result[1], <<>>) : printed' = <<s>>
    /\ UNCHANGED <<lexer, curr, stack, status, result, err, toks, nEat>>
    /\ UNCHANGED poolVars

Next ==
    \/ NewParser \/ ParseQuery \/ ParseField \/ ParseDirective \/ Unwind \/ Spin
    \/ NodePrint

Spec == Init /\ [][Next]_vars

\* The call is over: ParseQuery has returned, or the panic has left the last
\* activation.
Finished == status = "done" \/ (status = "panic" /\ stack = <<>>)

\* The program before it is given its input (os.Args[1] of main, the
\* OperationBody of an event a worker takes from the queue).
InitIdle ==
    /\ lexer = LexerZero(<<>>)
    /\ curr = NoToken
    /\ stack = <<>>
    /\ status = "idle"
    /\ result = <<>>
    /\ err = <<>>
    /\ toks = <<>>
    /\ nEat = 0
    /\ printed = <<>>
    /\ NoPool

Receive ==
    /\ status = "idle"
    /\ \E input \in Inputs : lexer' = LexerZero(input)
    /\ status' = "new"
    /\ UNCHANGED <<curr, stack, result, err, toks, nEat, printed>>
    /\ UNCHANGED poolVars

NextFair == Receive \/ Next

\* A call that is not over takes its next step: it runs on its own goroutine
\* and waits for nothing.
FairSpec == InitIdle /\ [][NextFair]_vars /\ WF_vars(Next)

(***************************************************************************)
(* cmd/graphqlinsights/main.go: the worker pool.  The handler puts events  *)
(* on the channel eventQueue; each worker receives one, parses its body    *)
(* with a parser of its own, logs the tree and receives the next.          *)
(***************************************************************************)
\* numWorkers
Workers == 1..NumWorkers

\* The OperationBody of the events: a well-formed query, one whose braces do
\* not match, and one with a string that is not closed.
BodyGood == <<"a", " ", "b", "{", "a", "(", "a", ":", Quote, "b", Quote, ")", "}">>
BodyMalformed == <<"a", " ", "b", "}">>
BodyUnterminated == <<"a", " ", Quote, "b">>
Bodies == {BodyGood, BodyMalformed, BodyUnterminated}

\* A parse call by itself: the Parser with its Lexer, the activations of its
\* methods, and what has come of it.
ParseCall(body) ==
    [lexer |-> LexerZero(body), curr |-> NoToken, stack |-> <<>>,
     status |-> "new", result |-> <<>>, err |-> <<>>, printed |-> <<>>]

\* p.eat(o.t) in the call p with the outcome e
EatIn(p, o, e) ==
    IF e.kind = "ok"
    THEN [p EXCEPT !.lexer = e.lexer, !.curr = e.curr, !.err = p.err \o e.panic,
                   !.stack = <<o.frame>> \o Tail(p.stack)]
    ELSE [p EXCEPT !.lexer = e.lexer, !.status = e.kind, !.err = p.err \o e.panic]

\* p.ParseField() or p.ParseDirective() is entered in the call p
CallIn(p, o) == [p EXCEPT !.stack = <<o.callee>> \o p.stack]

\* return &Node{...} in the call p
RetIn(p, o) ==
    IF Len(p.stack) = 1
    THEN [p EXCEPT !.stack = <<>>, !.result = <<o.node>>, !.status = "done"]
    ELSE [p EXCEPT !.stack = <<Appended(p.stack[2], o.node)>> \o Tail(Tail(p.stack))]

\* What the top activation of the call p does next.
OpIn(p) ==
    CASE Head(p.stack).fn = "ParseQuery" -> ParseQueryOp(Head(p.stack), p.curr)
      [] Head(p.stack).fn = "ParseField" -> ParseFieldOp(Head(p.stack), p.curr)
      [] Head(p.stack).fn = "ParseDirective" -> ParseDirectiveOp(Head(p.stack), p.curr)

\* The states the call p may be in after its next step: the steps NewParser,
\* ParseQuery, ParseField, ParseDirective, Unwind, Spin and NodePrint, on p.
CallSteps(p) ==
    CASE p.status = "new" ->
            {IF r.spin
             THEN [p EXCEPT !.status = "spin", !.lexer = r.lexer]
             ELSE [p EXCEPT !.status = "running", !.lexer = r.lexer,
                            !.curr = r.tok,
                            !.stack = <<Frame("ParseQuery", "kw")>>] :
                r \in {NextToken(NewLexer(p.lexer.input))}}
      [] p.status = "running" ->
            UNION {CASE o.op = "eat" ->
                          {EatIn(p, o, e) : e \in {Eaten(p.lexer, p.curr, o.t)}}
                     [] o.op = "call" -> {CallIn(p, o)}
                     [] o.op = "ret" -> {RetIn(p, o)} :
                   o \in {OpIn(p)}}
      [] p.status = "panic" /\ p.stack # <<>> ->
            {[p EXCEPT !.stack = Tail(p.stack)]}
      [] p.status = "spin" ->
            {IF l.currentChar = OutOfRange
             THEN [p EXCEPT !.status = "crash"]
             ELSE [p EXCEPT !.lexer = l] : l \in {readChar(p.lexer)}}
      [] p.status = "done" /\ p.printed = <<>> ->
            {[p EXCEPT !.printed = <<s>>] : s \in Printable(p.result[1], <<>>)}
      [] OTHER -> {}

\* The call of the variables lexer, curr, stack, status, result, err, printed.
NowCall ==
    [lexer |-> lexer, curr |-> curr, stack |-> stack, status |-> status,
     result |-> result, err |-> err, printed |-> printed]

\* The steps of the one call of Spec are the steps CallSteps gives it.
CallStepsAgree == [][NowCall' \in CallSteps(NowCall)]_callVars

\* A panic that nothing recovers has left the last activation of the call,
\* or the runtime has ended the program: worker has no recover, and the
\* whole program exits.
Fatal(c) ==
    \/ c.status = "crash"
    \/ c.status = "panic" /\ c.stack = <<>>

\* The worker pool before the first request: the workers started by main,
\* each waiting in "for event := range eventQueue".
NoCall ==
    /\ lexer = LexerZero(<<>>)
    /\ curr = NoToken
    /\ stack = <<>>
    /\ status = "idle"
    /\ result = <<>>
    /\ err = <<>>
    /\ toks = <<>>
    /\ nEat = 0
    /\ printed = <<>>

Waiting == [pc |-> "idle", event |-> 0, body |-> <<>>, p |-> 0]

InitPool ==
    /\ NoCall
    /\ eventQueue = <<>>
    /\ pool = [w \in Workers |-> Waiting]
    /\ parsers = <<>>
    /\ events = <<>>
    /\ proc = "up"

\* eventQueue <- data: the event joins the queue, or the handler waits while
\* the queue is full.
handler ==
    /\ proc = "up"
    /\ Len(events) < MaxEvents
    /\ Len(eventQueue) < QueueCap
    /\ \E body \in Bodies :
        /\ eventQueue' = Append(eventQueue, [id |-> Len(events) + 1, body |-> body])
        /\ events' = Append(events, [body |-> body, receivedBy |-> <<>>,
                                     parsedWith |-> <<>>, completed |-> 0])
    /\ UNCHANGED <<pool, parsers, proc>>
    /\ UNCHANGED callVars

\* A receive that leaves the event in the channel for the next receiver.
ReceivedKept(q) == q

\* The channel after a receive: the oldest event has left it.
Received(q) == Tail(q)

\* event := range eventQueue in worker w
Take(w) ==
    /\ proc = "up"
    /\ pool[w].pc = "idle"
    /\ eventQueue # <<>>
    /\ \E e \in {Head(eventQueue)} :
        /\ pool' = [pool EXCEPT ![w] = [pc |-> "busy", event |-> e.id,
                                        body |-> e.body, p |-> 0]]
        /\ events' = [events EXCEPT ![e.id].receivedBy = Append(@, w)]
    /\ eventQueue' = Received(eventQueue)
    /\ UNCHANGED <<parsers, proc>>
    /\ UNCHANGED callVars

\* p := parser.NewParser(event.OperationBody) in worker w: a new Parser with
\* a new Lexer, which scans the first token.
WorkerNewParser(w) ==
    /\ proc = "up"
    /\ pool[w].pc = "busy"
    /\ pool[w].p = 0
    /\ \E c \in CallSteps(ParseCall(pool[w].body)) :
        /\ parsers' = Append(parsers, [call |-> c, body |-> pool[w].body,
                                       steps |-> 1, usedBy |-> {w},
                                       usedFor |-> {pool[w].event}])
        /\ proc' = IF Fatal(c) THEN "down" ELSE proc
    /\ pool' = [pool EXCEPT ![w].p = Len(parsers) + 1]
    /\ events' = [events EXCEPT ![pool[w].event].parsedWith =
                                    Append(@, Len(parsers) + 1)]
    /\ UNCHANGED eventQueue
    /\ UNCHANGED callVars

\* The local variable p of worker w
Mine(w) == pool[w].p

\* The scanner of the first parser, whoever asks.
ScannerShared(heap, i) == heap[1].call.lexer

\* p.lexer: the scanner of parser i
Scanner(heap, i) == heap[i].call.lexer

\* The next step of result := p.ParseQuery() and result.Print("") in worker w
WorkerParse(w) ==
    /\ proc = "up"
    /\ pool[w].pc = "busy"
    /\ pool[w].p # 0
    /\ \E i \in {Mine(w)} :
       \E c \in CallSteps([parsers[i].call EXCEPT !.lexer = Scanner(parsers, i)]) :
        /\ parsers' = [parsers EXCEPT ![i] =
                          [@ EXCEPT !.call = c,
                                    !.steps = @ + 1,
                                    !.usedBy = @ \cup {w},
                                    !.usedFor = @ \cup {pool[w].event}]]
        /\ proc' = IF Fatal(c) THEN "down" ELSE proc
    /\ UNCHANGED <<eventQueue, pool, events>>
    /\ UNCHANGED callVars

\* The body of the loop is over in worker w: it waits for the next event.
WorkerDone(w) ==
    /\ proc = "up"
    /\ pool[w].pc = "busy"
    /\ pool[w].p # 0
    /\ parsers[pool[w].p].call.status = "done"
    /\ parsers[pool[w].p].call.printed # <<>>
    /\ pool' = [pool EXCEPT ![w] = Waiting]
    /\ events' = [events EXCEPT ![pool[w].event].completed = @ + 1]
    /\ UNCHANGED <<eventQueue, parsers, proc>>
    /\ UNCHANGED callVars

\* func worker(id int)
worker(w) == Take(w) \/ WorkerNewParser(w) \/ WorkerParse(w) \/ WorkerDone(w)

NextPool == handler \/ \E w \in Workers : worker(w)

\* The scheduler is fair to the workers: a worker that can take a step takes
\* it.  Requests arrive when they arrive.
PoolSpec ==
    InitPool /\ [][NextPool]_vars /\ \A w \in Workers : WF_vars(worker(w))

(***************************************************************************)
(* The source as the parser saw it: the tokens it has consumed, and what   *)
(* is written in them.                                                     *)
(***************************************************************************)
\* The tokens eat has consumed, as Token values.
Consumed == [i \in 1..nEat |-> Token(toks[i].Type, toks[i].Value)]

Punct(t) == Token(t, <<t>>)
Ident(name) == Token(TokenIdent, name)

\* ts from behind its first ")"
RECURSIVE AfterParenR(_)
AfterParenR(ts) ==
    IF ts = <<>> THEN <<>>
    ELSE IF Head(ts).Type = TokenParenR THEN Tail(ts) ELSE AfterParenR(Tail(ts))

\* ts without its parenthesised argument lists
RECURSIVE WithoutArguments(_)
WithoutArguments(ts) ==
    IF ts = <<>> THEN <<>>
    ELSE IF Head(ts).Type = TokenParenL
         THEN WithoutArguments(AfterParenR(Tail(ts)))
         ELSE <<Head(ts)>> \o WithoutArguments(Tail(ts))

\* ts without its directives: every "@" goes with the name behind it
RECURSIVE WithoutDirectives(_)
WithoutDirectives(ts) ==
    IF ts = <<>> THEN <<>>
    ELSE IF Head(ts).Type = TokenAt
         THEN WithoutDirectives(Tail(Tail(ts)))
         ELSE <<Head(ts)>> \o WithoutDirectives(Tail(ts))

\* ts without the pairs of braces that hold nothing
RECURSIVE WithoutEmptyBraces(_)
WithoutEmptyBraces(ts) ==
    IF Len(ts) < 2 THEN ts
    ELSE IF ts[1].Type = TokenBraceL /\ ts[2].Type = TokenBraceR
         THEN WithoutEmptyBraces(Tail(Tail(ts)))
         ELSE <<Head(ts)>> \o WithoutEmptyBraces(Tail(ts))

\* The query as written, from its name on, without argument lists; a field's
\* empty braces are left out, the query's own braces are kept.
WrittenQuery(ts) ==
    LET body == Tail(WithoutArguments(ts))
        open == CHOOSE i \in 1..Len(body) : body[i].Type = TokenBraceL
    IN  SubSeq(body, 1, open) \o WithoutEmptyBraces(SubSeq(body, open + 1, Len(body)))

\* A tree written back as tokens: a node's name, its directives if dirs is
\* set, and its selection set in braces (a field without children has none).
RECURSIVE NodesTokens(_, _)
NodeTokens(n, dirs) ==
    <<Ident(n.Name)>>
    \o (IF dirs
        THEN NodesTokens([i \in 1..Len(n.Directives) |->
                            [n.Directives[i] EXCEPT !.Type = "@"]], dirs)
        ELSE <<>>)
    \o (IF n.SelectionSet = <<>> /\ n.Type # NodeQuery
        THEN <<>>
        ELSE <<Punct(TokenBraceL)>> \o NodesTokens(n.SelectionSet, dirs)
             \o <<Punct(TokenBraceR)>>)

NodesTokens(ns, dirs) ==
    IF ns = <<>> THEN <<>>
    ELSE (IF Head(ns).Type = "@"
          THEN <<Punct(TokenAt), Ident(Head(ns).Name)>>
          ELSE NodeTokens(Head(ns), dirs))
         \o NodesTokens(Tail(ns), dirs)

\* C1: when ParseQuery returns, the root is named by the second token, and the
\* fields of the tree, read in order with each field's children in braces
\* behind it, are the fields of the source in the order and nesting written.
C1_SelectionSetsAsWritten ==
    status = "done" =>
        /\ result[1].Name = toks[2].Value
        /\ toks[2].Type = TokenIdent
        /\ NodeTokens(result[1], FALSE) = WithoutDirectives(WrittenQuery(Consumed))

\* A returned tree in which a field has two children of different names, the
\* second with a child of its own.
C1_Witness ==
    /\ status = "done"
    /\ result[1].SelectionSet # <<>>
    /\ LET f == result[1].SelectionSet[1]
       IN  /\ Len(f.SelectionSet) = 2
           /\ f.SelectionSet[1].Name # f.SelectionSet[2].Name
           /\ f.SelectionSet[1].SelectionSet = <<>>
           /\ Len(f.SelectionSet[2].SelectionSet) = 1

\* C4: when ParseQuery returns, the directives of the query and of every field
\* are the directives written right behind that node's name and argument
\* list, in the order written, and no node holds another node's directive.
C4_DirectivesAsWritten ==
    status = "done" =>
        NodeTokens(result[1], TRUE) = WrittenQuery(Consumed)

\* A returned tree with two directives of different names on the query and two
\* on a field that has an argument.
C4_Witness ==
    /\ status = "done"
    /\ Len(result[1].Directives) = 2
    /\ result[1].Directives[1].Name # result[1].Directives[2].Name
    /\ result[1].SelectionSet # <<>>
    /\ LET f == result[1].SelectionSet[1]
       IN  /\ Len(f.Directives) = 2
           /\ f.Directives[1].Name # f.Directives[2].Name
           /\ DOMAIN f.Arguments # {}

\* The string literal written at from, the 1-based index of its opening quote:
\* the characters up to the next quote, and those between the two.
ClosingQuote(input, from) ==
    CHOOSE j \in (from + 1)..Len(input) :
        /\ input[j] = Quote
        /\ \A k \in (from + 1)..(j - 1) : input[k] # Quote
BetweenQuotes(input, from) == SubSeq(input, from + 1, ClosingQuote(input, from) - 1)

\* ParseField or ParseDirective has just stored an argument: the last three
\* tokens consumed are its name, the colon and its string literal.
ArgumentStored ==
    /\ status = "running"
    /\ Top.fn \in {"ParseField", "ParseDirective"}
    /\ Top.pc \in {"close", "argloop"}
    /\ toks[nEat].Type = TokenString

\* C5: the value stored for an argument is the text between the opening and
\* the closing quote of its string literal, without either quote.
C5_ArgumentValueBetweenQuotes ==
    ArgumentStored =>
        /\ lexer.input[toks[nEat].from] = Quote
        /\ toks[nEat - 2].Value \in DOMAIN Top.args
        /\ Top.args[toks[nEat - 2].Value] = BetweenQuotes(lexer.input, toks[nEat].from)

\* ParseDirective has just stored an argument whose literal holds two
\* characters or more.
C5_Witness ==
    /\ ArgumentStored
    /\ Len(BetweenQuotes(lexer.input, toks[nEat].from)) >= 2
    /\ Top.fn = "ParseDirective"

\* Every node of the tree under n is of the kind its place asks for: the
\* members of a selection set are fields, the members of directives are
\* directives, a directive has neither, and no Query node is below the root.
RECURSIVE WellFormedNodes(_, _)
WellFormedNode(n, type) ==
    /\ n.Type = type
    /\ type = NodeDirective => n.Directives = <<>> /\ n.SelectionSet = <<>>
    /\ WellFormedNodes(n.Directives, NodeDirective)
    /\ WellFormedNodes(n.SelectionSet, NodeField)

WellFormedNodes(ns, type) ==
    \A i \in 1..Len(ns) : WellFormedNode(ns[i], type)

\* C9: the tree ParseQuery returns has a Query root and no other Query node,
\* only fields in selection sets, only directives in directives, and
\* directives without selection set or directives of their own.
C9_TreeWellFormed ==
    status = "done" => WellFormedNode(result[1], NodeQuery)

\* A returned tree with a directive on the query, a directive on a field and a
\* field below a field.
C9_Witness ==
    /\ status = "done"
    /\ result[1].Directives # <<>>
    /\ \E i \in 1..Len(result[1].SelectionSet) :
          /\ result[1].SelectionSet[i].Directives # <<>>
          /\ result[1].SelectionSet[i].SelectionSet # <<>>

(***************************************************************************)
(* The grammar of the spec, place by place: the kinds of lookahead with    *)
(* which an activation goes on, and the kind it asks for otherwise.        *)
(***************************************************************************)
Accepts(f) ==
    CASE f.pc \in {"kw", "name", "argname"} -> {TokenIdent}
      [] f.pc = "at" -> {TokenAt}
      [] f.pc = "colon" -> {TokenColon}
      [] f.pc = "argval" -> {TokenString}
      [] f.pc = "close" -> {TokenParenR}
      [] f.pc = "argloop" -> {TokenIdent, TokenParenR}
      [] f.pc = "fields" -> {TokenIdent, TokenBraceR}
      [] f.pc = "dirs" /\ f.fn = "ParseQuery" -> {TokenAt, TokenBraceL}
      [] OTHER -> TokenTypes

Required(f) ==
    CASE f.pc \in {"kw", "name", "argname"} -> TokenIdent
      [] f.pc = "at" -> TokenAt
      [] f.pc = "colon" -> TokenColon
      [] f.pc = "argval" -> TokenString
      [] f.pc \in {"close", "argloop"} -> TokenParenR
      [] f.pc = "fields" -> TokenBraceR
      [] f.pc = "dirs" -> TokenBraceL
      [] OTHER -> ""

Mismatch == status = "running" /\ curr.Type \notin Accepts(Top)

C3_OneOutcome ==
    /\ [](/\ Len(err) <= 1
          /\ Len(result) <= 1
          /\ ~(result # <<>> /\ err # <<>>)
          /\ result # <<>> <=> status = "done"
          /\ err # <<>> <=> status = "panic")
    /\ [][err # <<>> =>
            /\ err' = err
            /\ toks' = toks
            /\ lexer' = lexer
            /\ curr' = curr
            /\ result' = <<>>
            /\ status' = "panic"]_vars

\* The panic is leaving an activation whose caller already holds a parsed
\* field: a partly built tree exists and is dropped.
C3_Witness ==
    /\ status = "panic"
    /\ err # <<>>
    /\ Len(stack) >= 2
    /\ stack[2].selectionSet # <<>>

\* C6: every parse call that is begun comes to an end, with a tree or with a
\* panic.
C6_Terminates == (status = "new") ~> Finished

\* toks[i] is the "(" behind a field's name, consumed by ParseField (the "("
\* of a directive has "@" two tokens before it).
FieldParen(i) ==
    /\ toks[i].Type = TokenParenL
    /\ toks[i - 1].Type = TokenIdent
    /\ toks[i - 2].Type # TokenAt

\* The call has consumed n tokens and no more: it is about to ask for kind, or
\* has panicked asking for it.
StoppedAt(n, kind) ==
    /\ nEat = n
    /\ \/ status = "running" /\ err = <<>>
       \/ status = "panic" /\ err = <<[expected |-> kind, got |-> toks[n + 1].Type]>>

\* C7: behind the "(" of a field, anything but an identifier stops the call
\* asking for IDENT; one name, colon and string literal are stored as the
\* field's only argument; and anything but ")" behind them stops the call
\* asking for ")", with that one argument stored and nothing else.
C7_FieldHasOneArgument ==
    \A i \in 3..nEat :
        FieldParen(i) =>
            /\ toks[i + 1].Type # TokenIdent => StoppedAt(i, TokenIdent)
            /\ nEat >= i + 3 =>
                  /\ toks[i + 4].Type # TokenParenR => StoppedAt(i + 3, TokenParenR)
                  /\ (nEat = i + 3 /\ stack # <<>> /\ Top.pc = "close") =>
                        Top.args = (toks[i + 1].Value :>
                                        BetweenQuotes(lexer.input, toks[i + 3].from))

\* A second argument follows the first inside a field's parentheses: the call
\* has panicked asking for ")" with one argument stored.
C7_Witness ==
    /\ status = "panic"
    /\ err = <<[expected |-> TokenParenR, got |-> TokenIdent]>>
    /\ stack # <<>>
    /\ Top.fn = "ParseField"
    /\ Top.pc = "close"
    /\ nEat >= 6
    /\ FieldParen(nEat - 3)
    /\ Cardinality(DOMAIN Top.args) = 1

\* ParseDirective is in or behind its argument loop: the index of the "(" it
\* consumed, and the indices of the argument names consumed since.
InDirectiveArguments ==
    /\ status = "running"
    /\ Top.fn = "ParseDirective"
    /\ Top.pc \in {"argloop", "ret"}
DirectiveParen == CHOOSE j \in 1..nEat :
    toks[j].Type = TokenParenL /\ \A k \in (j + 1)..nEat : toks[k].Type # TokenParenL
ArgumentNames ==
    {k \in (DirectiveParen + 1)..(nEat - 2) : (k - DirectiveParen) % 3 = 1}

\* C8: the arguments of a directive are the names written in its parentheses,
\* each with the text of the last string literal written for it; this holds
\* after every argument and for the node ParseDirective returns.
C8_DirectiveArguments ==
    InDirectiveArguments =>
        LET args == IF Top.pc = "ret"
                    THEN ParseDirectiveOp(Top, curr).node.Arguments
                    ELSE Top.args
        IN  /\ DOMAIN args = {toks[k].Value : k \in ArgumentNames}
            /\ \A k \in ArgumentNames :
                  (\A k2 \in ArgumentNames : k2 > k => toks[k2].Value # toks[k].Value)
                      => args[toks[k].Value] = BetweenQuotes(lexer.input, toks[k + 2].from)

\* ParseDirective is about to return a node for three adjacent arguments, the
\* first and the third of the same name and of different values.
C8_Witness ==
    /\ InDirectiveArguments
    /\ Top.pc = "ret"
    /\ Cardinality(ArgumentNames) = 3
    /\ Cardinality(DOMAIN Top.args) = 2
    /\ LET k == DirectiveParen + 1
       IN  /\ toks[k].Value = toks[k + 6].Value
           /\ toks[k + 2].Value # toks[k + 8].Value

\* C10: a NextToken call made after one that returned EOF returns EOF as well
\* and leaves the scanner as it was.
C10_EofForEver ==
    [][(toks # <<>> /\ toks[Len(toks)].Type = TokenEOF /\ toks' # toks) =>
          /\ Len(toks') = Len(toks) + 1
          /\ toks'[Len(toks')].Type = TokenEOF
          /\ lexer' = lexer]_vars

\* EOF was returned twice in the middle of the input, at a character that
\* starts no lexeme, after a first token that was not EOF.
C10_Witness ==
    /\ status = "lexing"
    /\ Len(toks) >= 3
    /\ toks[1].Type # TokenEOF
    /\ toks[Len(toks) - 1].Type = TokenEOF
    /\ toks[Len(toks)].Type = TokenEOF
    /\ lexer.position < Len(lexer.input)

(***************************************************************************)
(* The text of the tokens.                                                 *)
(***************************************************************************)
\* C11: the text of a STRING token is the source from its opening quote to
\* its closing quote, both included.
C11_StringTokenWholeSpan ==
    \A k \in 1..Len(toks) :
        toks[k].Type = TokenString =>
            toks[k].Value = SubSeq(lexer.input, toks[k].from, toks[k].after - 1)

\* What the code returns instead: the text behind the opening quote, up to
\* and with the closing quote.
StringTokenFromBehindQuote ==
    \A k \in 1..Len(toks) :
        toks[k].Type = TokenString =>
            /\ lexer.input[toks[k].from] = Quote
            /\ toks[k].Value = SubSeq(lexer.input, toks[k].from + 1, toks[k].after - 1)
            /\ toks[k].Value[Len(toks[k].Value)] = Quote

\* The character that starts at byte i of the text is a letter: a letter of
\* ASCII, or the two bytes of U+00E9.
LetterAt(text, i) ==
    \/ text[i] \in AsciiLetters
    \/ text[i] = ByteC3 /\ i < Len(text) /\ text[i + 1] = ByteA9

\* The number of bytes of the letter, underscore or digit that starts at byte
\* i of the text, 0 when there is none.
NameCharAt(text, i) ==
    IF i > Len(text) THEN 0
    ELSE IF text[i] \in AsciiLetters \cup DigitChars \cup {"_"} THEN 1
    ELSE IF LetterAt(text, i) THEN 2
    ELSE 0

\* The index behind the maximal run of letters, underscores and digits that
\* starts at byte i of the text.
RECURSIVE RunEnd(_, _)
RunEnd(text, i) ==
    IF NameCharAt(text, i) = 0 THEN i ELSE RunEnd(text, i + NameCharAt(text, i))

\* The text is well-formed UTF-8: the two bytes of U+00E9 come together only.
ValidUtf8(text) ==
    \A i \in 1..Len(text) :
        /\ text[i] = ByteC3 => (i < Len(text) /\ text[i + 1] = ByteA9)
        /\ text[i] = ByteA9 => (i > 1 /\ text[i - 1] = ByteC3)

\* C12: in a UTF-8 text, at a letter or an underscore NextToken returns an
\* IDENT whose text is the maximal run of letters, underscores and digits from
\* there, and leaves the cursor on the character behind the run; at a digit it
\* returns no IDENT.
C12_IdentifierIsMaximalRun ==
    \A k \in 1..Len(toks) :
        LET text == lexer.input
            from == toks[k].from
        IN  ValidUtf8(text) =>
            /\ (from <= Len(text) /\ (LetterAt(text, from) \/ text[from] = "_")) =>
                  /\ toks[k].Type = TokenIdent
                  /\ toks[k].Value = SubSeq(text, from, RunEnd(text, from) - 1)
                  /\ toks[k].after = RunEnd(text, from)
            /\ (from <= Len(text) /\ text[from] \in DigitChars) =>
                  toks[k].Type # TokenIdent

\* C12 for the texts of ASCII alone.
IdentifierIsMaximalRunInAscii ==
    (\A i \in 1..Len(lexer.input) : lexer.input[i] \notin {ByteC3, ByteA9})
        => C12_IdentifierIsMaximalRun

(***************************************************************************)
(* Whitespace.                                                             *)
(***************************************************************************)
\* The scanner l after k more NextToken calls.
LexerAfter[l \in Lexers, k \in Nat] ==
    IF k = 0 THEN l ELSE LexerAfter[NextToken(l).lexer, k - 1]

\* What the NextToken calls on l return, one after the other, up to the first
\* EOF, the first call that does not return (logged with NoToken), or k calls.
Scan[l \in Lexers, k \in Nat] ==
    IF k = 0 THEN <<>>
    ELSE LET r == NextToken(l)
         IN  <<Logged(l, r)>>
             \o (IF r.spin \/ r.tok.Type = TokenEOF
                 THEN <<>>
                 ELSE Scan[r.lexer, k - 1])

ScanAll(text) == Scan[NewLexer(text), Len(text) + 1]

\* The tokens of a scan without their places in the text.
TokensOf(log) == [k \in 1..Len(log) |-> Token(log[k].Type, log[k].Value)]

\* The text with one whitespace character more in front of a lexeme that the
\* scan of it reaches, or behind the last one.
WithWhitespace(text) ==
    LET log == ScanAll(text)
    IN  {Insert(text, i, c) :
            i \in {log[k].from - 1 : k \in 1..Len(log)} \cup {Len(text)},
            c \in SpaceChars}

\* What the top activation does next when the lookahead is c.
TopOpWith(c) ==
    CASE Top.fn = "ParseQuery" -> ParseQueryOp(Top, c)
      [] Top.fn = "ParseField" -> ParseFieldOp(Top, c)
      [] Top.fn = "ParseDirective" -> ParseDirectiveOp(Top, c)

TopOp == TopOpWith(curr)

\* What the next step of the call makes of the parser when its scanner is l
\* and its lookahead is c: the lookahead, the activations and the outcome.
ParserAfterStepWith(l, c) ==
    LET o == TopOpWith(c)
        n == IF status = "new"
             THEN LET r == NextToken(NewLexer(l.input))
                  IN  IF r.spin
                      THEN [Now EXCEPT !.status = "spin"]
                      ELSE [Now EXCEPT !.status = "running", !.curr = r.tok,
                                       !.stack = <<Frame("ParseQuery", "kw")>>]
             ELSE CASE o.op = "eat" -> AfterEat(o, Eaten(l, c, o.t))
                    [] o.op = "call" -> AfterCall(o)
                    [] o.op = "ret" -> AfterRet(o)
    IN  [curr |-> n.curr, stack |-> n.stack, status |-> n.status,
         result |-> n.result, err |-> n.err]

ParserAfterStep(l) == ParserAfterStepWith(l, curr)

\* The text with one whitespace character more in front of the lexeme the
\* scanner reads next.
WithWhitespaceAhead ==
    {Insert(lexer.input, SkipSpace[lexer].position - 1, c) : c \in SpaceChars}

\* C13: a whitespace character more in front of a lexeme, or behind the last,
\* leaves the tokens the scanner returns as they are, and every step of the
\* parse call does to the parser what it does without that character.  (Taking
\* a whitespace character away is the same pair of texts, read the other way.)
C13_WhitespaceInsignificant ==
    /\ status = "new" =>
          LET tokens == TokensOf(ScanAll(lexer.input))
          IN  \A v \in WithWhitespace(lexer.input) : TokensOf(ScanAll(v)) = tokens
    /\ status = "running" =>
          \A v \in WithWhitespaceAhead :
              ParserAfterStep(LexerAfter[NewLexer(v), Len(toks)])
                  = ParserAfterStep(lexer)

\* A call has taken a string out of a text that has whitespace in front of
\* that string, and goes on to the token behind it.
C13_Witness ==
    /\ status = "running"
    /\ TopOp.op = "eat"
    /\ toks # <<>>
    /\ toks[Len(toks)].Type = TokenString
    /\ toks[Len(toks)].from > toks[Len(toks)].before
    /\ nEat >= 4

(***************************************************************************)
(* The grammar.                                                            *)
(***************************************************************************)
\* C14: an accepted text has at least one field between the braces of every
\* selection set: no "{" with "}" right behind it, the query's or a field's.
C14_SelectionSetsNotEmpty ==
    status = "done" =>
        \A k \in 1..(nEat - 1) :
            ~(toks[k].Type = TokenBraceL /\ toks[k + 1].Type = TokenBraceR)

\* What the code does instead: braces that hold nothing are accepted, and give
\* the node no children.
EmptyQueryBracesAccepted ==
    /\ status = "done"
    /\ toks[3].Type = TokenBraceL
    /\ toks[4].Type = TokenBraceR
    /\ result[1].SelectionSet = <<>>

EmptyFieldBracesAccepted ==
    /\ status = "done"
    /\ \E k \in 4..(nEat - 1) :
          /\ toks[k - 1].Type = TokenIdent
          /\ toks[k].Type = TokenBraceL
          /\ toks[k + 1].Type = TokenBraceR

\* ts with every parenthesised argument list that holds an argument cut down
\* to its "(", and every empty one left out.
RECURSIVE ArgumentsMarked(_)
ArgumentsMarked(ts) ==
    IF ts = <<>> THEN <<>>
    ELSE IF Head(ts).Type = TokenParenL
         THEN (IF Len(ts) >= 2 /\ ts[2].Type = TokenParenR
               THEN <<>>
               ELSE <<Head(ts)>>)
              \o ArgumentsMarked(AfterParenR(Tail(ts)))
         ELSE <<Head(ts)>> \o ArgumentsMarked(Tail(ts))

\* The query as written, from its name on, with the marks of its argument
\* lists; a field's empty braces are left out.
MarkedQuery(ts) ==
    LET body == Tail(ArgumentsMarked(ts))
        open == CHOOSE i \in 1..Len(body) : body[i].Type = TokenBraceL
    IN  SubSeq(body, 1, open) \o WithoutEmptyBraces(SubSeq(body, open + 1, Len(body)))

\* A tree written back as tokens, with a "(" behind the name of every node
\* whose arguments map is not empty.
RECURSIVE MarkedNodes(_)
MarkedNode(n) ==
    (IF n.Type = NodeDirective THEN <<Punct(TokenAt)>> ELSE <<>>)
    \o <<Ident(n.Name)>>
    \o (IF DOMAIN n.Arguments # {} THEN <<Punct(TokenParenL)>> ELSE <<>>)
    \o MarkedNodes(n.Directives)
    \o (IF n.SelectionSet = <<>> /\ n.Type # NodeQuery
        THEN <<>>
        ELSE <<Punct(TokenBraceL)>> \o MarkedNodes(n.SelectionSet)
             \o <<Punct(TokenBraceR)>>)

MarkedNodes(ns) ==
    IF ns = <<>> THEN <<>> ELSE MarkedNode(Head(ns)) \o MarkedNodes(Tail(ns))

\* C15: in a returned tree the Query node has no arguments, and a field or a
\* directive has arguments only where a parenthesised argument list is written
\* behind its name (and then it has, unless the parentheses are empty).
C15_ArgumentsOnlyWhereWritten ==
    status = "done" =>
        /\ DOMAIN result[1].Arguments = {}
        /\ MarkedNode(result[1]) = MarkedQuery(Consumed)

\* A returned tree in which a field and its directive have arguments and the
\* field's child has none.
C15_Witness ==
    /\ status = "done"
    /\ result[1].SelectionSet # <<>>
    /\ LET f == result[1].SelectionSet[1]
       IN  /\ DOMAIN f.Arguments # {}
           /\ f.Directives # <<>>
           /\ DOMAIN f.Directives[1].Arguments # {}
           /\ f.SelectionSet # <<>>
           /\ DOMAIN f.SelectionSet[1].Arguments = {}

(***************************************************************************)
(* The keyword.                                                            *)
(***************************************************************************)
\* Identifiers to write in place of the first one.
OtherNames == {<<"a">>, <<"b">>, <<"B", "_", "1">>}

\* The texts that differ from text in the text of the first identifier only:
\* none when the first token of text is no identifier.
Renamed(text) ==
    LET log == Scan[NewLexer(text), 1]
        first == log[1]
    IN  IF first.Type # TokenIdent
        THEN {}
        ELSE {SubSeq(text, 1, first.from - 1) \o name
                  \o SubSeq(text, first.after, Len(text)) : name \in OtherNames}
             \ {text}

\* C16: in a text that differs in the text of the first identifier only, the
\* first token is an identifier as well, and every step of the parse call does
\* to the parser what it does in the text at hand; so the outcome is the same.
C16_KeywordTextNotInspected ==
    \A v \in Renamed(lexer.input) :
        LET first == NextToken(NewLexer(v))
        IN  /\ status = "new" =>
                  /\ ~first.spin
                  /\ first.tok.Type = TokenIdent
            /\ status = "running" =>
                  ParserAfterStepWith(LexerAfter[NewLexer(v), Len(toks)],
                                      IF Len(toks) = 1 THEN first.tok ELSE curr)
                      = ParserAfterStep(lexer)

\* The call eats the keyword of a text in which the keyword is not "a", and
\* the call returns a tree for that text.
C16_Witness ==
    /\ status = "done"
    /\ toks[1].Value = <<"b">>
    /\ result[1].SelectionSet # <<>>

(***************************************************************************)
(* Print.                                                                  *)
(***************************************************************************)
\* C17: the text Print returns for a returned tree is the only text it can
\* return for that tree.
C17_PrintDetermined ==
    printed # <<>> => Printable(result[1], <<>>) = {printed[1]}

\* Some node of the tree ns has two or more arguments.
RECURSIVE SomeTwoArguments(_)
SomeTwoArguments(ns) ==
    \E i \in 1..Len(ns) :
        \/ Cardinality(DOMAIN ns[i].Arguments) >= 2
        \/ SomeTwoArguments(ns[i].Directives)
        \/ SomeTwoArguments(ns[i].SelectionSet)

\* What the code does: the text is determined as long as no arguments map of
\* the tree has two entries, and is not when one has.
PrintDeterminedUpToTwoArguments ==
    printed # <<>> =>
        (SomeTwoArguments(result) <=> Printable(result[1], <<>>) # {printed[1]})

\* Print has rendered a tree with a directive of two arguments.
PrintedTwoArguments ==
    /\ printed # <<>>
    /\ result[1].Directives # <<>>
    /\ Cardinality(DOMAIN result[1].Directives[1].Arguments) = 2

(***************************************************************************)
(* Parse calls side by side.                                               *)
(***************************************************************************)
\* The states a call on the text b may be in after k steps with no other call
\* beside it.
SoloAfter[b \in Bodies, k \in Nat] ==
    IF k = 0 THEN {ParseCall(b)}
    ELSE UNION {CallSteps(c) : c \in SoloAfter[b, k - 1]}

Queued(id) == Cardinality({k \in DOMAIN eventQueue : eventQueue[k].id = id})

\* The workers that are at work on the event id.
AtWorkOn(id) == {w \in Workers : pool[w].pc = "busy" /\ pool[w].event = id}

Put(id) == id \in DOMAIN events

\* A worker has received the event id and the body of its loop is over.
Completed(id) == Put(id) /\ events[id].completed = 1

\* Some event put so far carries a body that ParseQuery does not return from.
SomeBodyNotParsed == \E id \in DOMAIN events : events[id].body # BodyGood

\* C20: under fair scheduling of the workers, every event the handler has put
\* on the queue is in the end received by a worker whose processing of it
\* completes, whatever the bodies of the events are.
C20_QueueDrained == \A id \in 1..MaxEvents : Put(id) ~> Completed(id)

\* While every body is well-formed the queue is drained.
DrainedWhileWellFormed ==
    \A id \in 1..MaxEvents : Put(id) ~> (Completed(id) \/ SomeBodyNotParsed)

\* A panic in one worker has ended the program with an event in the queue.
EndedWithEventQueued == proc = "down" /\ eventQueue # <<>>

(***************************************************************************)
(* Characters that start no lexeme.                                        *)
(***************************************************************************)
\* The characters of the inputs that are no punctuation, quote, letter,
\* underscore or whitespace: the comma, the digit, and a byte that is no
\* letter.
NoLexemeChars == {",", "1", ByteA9}

\* The i-th NextToken call found, behind the whitespace, a character that
\* starts no lexeme.
MetNoLexemeChar(i) ==
    /\ toks[i].from <= Len(lexer.input)
    /\ lexer.input[toks[i].from] \in NoLexemeChars

\* C21: a NextToken call that meets a character that starts no lexeme
\* returns EOF and leaves the cursor on that character; every later call
\* returns EOF from the same place, so nothing behind the character is made
\* a token, whatever it is.
C21_NoLexemeCharEndsScan ==
    \A i \in DOMAIN toks :
        MetNoLexemeChar(i)
            => /\ status = "lexing"
               /\ lexer.position = toks[i].from
               /\ lexer.currentChar = lexer.input[toks[i].from]
               /\ \A j \in i..Len(toks) :
                    /\ toks[j].Type = TokenEOF
                    /\ toks[j].Value = <<>>
                    /\ toks[j].from = toks[i].from
                    /\ toks[j].after = toks[i].from

\* A token, then a character that starts no lexeme with more input behind
\* it, and two calls more.
C21_Witness ==
    /\ Len(toks) >= 4
    /\ toks[1].Type # TokenEOF
    /\ MetNoLexemeChar(2)
    /\ toks[2].from < Len(lexer.input)
    /\ lexer.input[toks[2].from + 1] \in {"a", "{", Quote}

(***************************************************************************)
(* What follows the query.                                                 *)
(***************************************************************************)
\* The calls in which a parse call that has come to p ends, or stays for
\* ever: ParseQuery has returned, eat has panicked, or NextToken is in its
\* string loop.
RECURSIVE RunOf(_)
RunOf(p) ==
    IF p.status \in {"new", "running"}
    THEN UNION {RunOf(q) : q \in CallSteps(p)}
    ELSE {p}

\* The parse call on the text alone ends with a tree.
ParsedAlone(text) == \A p \in RunOf(ParseCall(text)) : p.status = "done"

\* The first k characters of the input, and the rest.
Front(k) == SubSeq(lexer.input, 1, k)
Rest(k) == SubSeq(lexer.input, k + 1, Len(lexer.input))

\* NextToken returns on the text: it does not begin with a string that no
\* quote closes.
FirstTokenScanned(text) == ~NextToken(NewLexer(text)).spin

\* The input is an accepted text, closed by the "}" at k, with tokens behind.
AcceptedWithMore(k) ==
    /\ lexer.input[k] = "}"
    /\ FirstTokenScanned(Rest(k))
    /\ ParsedAlone(Front(k))

\* The call is over, or will never be.
Ended == status \in {"done", "panic", "spin", "crash"}

\* C22: when the input is an accepted text with further tokens behind the "}"
\* that closes its selection set, the call ends as the call on the accepted
\* text alone does: with the same tree, and with no panic.
C22_NothingRequiredBehindQuery ==
    Ended =>
        \A k \in 1..Len(lexer.input) :
            AcceptedWithMore(k) =>
                /\ status = "done"
                /\ err = <<>>
                /\ \A p \in RunOf(ParseCall(Front(k))) : result = p.result

\* ParseQuery has returned a tree with a field in it, and the input goes on
\* behind the closing "}" with a token that is not EOF.
C22_Witness ==
    /\ status = "done"
    /\ result[1].SelectionSet # <<>>
    /\ curr.Type # TokenEOF
    /\ \E k \in 1..Len(lexer.input) - 1 : AcceptedWithMore(k)

(***************************************************************************)
(* The lookahead.                                                          *)
(***************************************************************************)
\* The parser stands between two of its steps.
BetweenSteps == status \in {"running", "done", "panic"}

\* The scanner has returned one token more than eat has consumed, one behind
\* the other from the start of the input, and the lookahead is the last.
OneTokenAhead ==
    /\ Len(toks) = nEat + 1
    /\ curr = Token(toks[nEat + 1].Type, toks[nEat + 1].Value)
    /\ toks[1].before = 1
    /\ \A i \in 1..nEat : toks[i + 1].before = toks[i].after
    /\ lexer.position = toks[nEat + 1].after

\* C23: between any two steps of the parser the lookahead is the first token
\* not consumed, and the scanner has been asked for one token more than the
\* eat calls that matched; an eat that matches takes one new token from the
\* scanner, and an eat that fails takes none and leaves scanner and
\* lookahead alone.
C23_OneTokenLookahead ==
    /\ [](BetweenSteps => OneTokenAhead)
    /\ [][/\ nEat' = nEat + 1 => Len(toks') = Len(toks) + 1
          /\ nEat' = nEat /\ status' # "new" /\ status # "new" => toks' = toks
          /\ status = "running" /\ status' = "panic"
                => /\ lexer' = lexer
                   /\ curr' = curr
                   /\ toks' = toks
                   /\ nEat' = nEat]_vars

\* An eat has failed after three that matched, with input left behind the
\* lookahead.
C23_Witness ==
    /\ status = "panic"
    /\ nEat = 3
    /\ curr.Type \notin {TokenEOF, TokenIdent}
    /\ lexer.position <= Len(lexer.input)

(***************************************************************************)
(* The cursor.                                                             *)
(***************************************************************************)
\* The scanner stands inside the input or right behind it, and so do the
\* bounds of every token returned so far.
CursorInside ==
    /\ lexer.position \in 1..(Len(lexer.input) + 1)
    /\ \A i \in DOMAIN toks :
        /\ toks[i].Value # OutOfRange
        /\ 1 <= toks[i].before
        /\ toks[i].before <= toks[i].from
        /\ toks[i].from <= toks[i].after
        /\ toks[i].after <= Len(lexer.input) + 1
        /\ toks[i].from + Len(toks[i].Value) <= toks[i].after

\* C24: over any sequence of NextToken calls the position never decreases;
\* whenever a call has returned, the position lies between 1 and
\* len(input) + 1 and the bounds of the tokens lie inside the input; and the
\* scanner never fails with an index out of range.
C24_CursorMonotoneInRange ==
    /\ [][lexer'.position >= lexer.position]_vars
    /\ [](status = "lexing" => CursorInside)
    /\ [](status # "crash")

\* The same of the calls that return: between calls the position has not
\* decreased and lies inside, with the bounds of every token.
CursorMonotoneInRangeBetweenCalls ==
    /\ [][status' = "lexing" => lexer'.position >= lexer.position]_vars
    /\ [](status = "lexing" => CursorInside)

\* The position has passed the largest int inside the string loop, and the
\* runtime has ended the program at l.input[l.position].
CrashedOutOfRange ==
    /\ status = "crash"
    /\ lexer.position < 0
    /\ readChar(lexer).currentChar = OutOfRange

(***************************************************************************)
(* Leaf fields and empty braces.                                           *)
(***************************************************************************)
\* The first "{" among the tokens: the one that opens the query.
QueryBrace == CHOOSE k \in DOMAIN toks :
                /\ toks[k].Type = TokenBraceL
                /\ \A j \in 1..(k - 1) : toks[j].Type # TokenBraceL

\* Tokens k and k + 1 are the empty braces of a field.
EmptyBracesAt(k) ==
    /\ k > QueryBrace
    /\ toks[k].Type = TokenBraceL
    /\ toks[k + 1].Type = TokenBraceR

\* Token k is the last of a field that has no braces.
LeafEndsAt(k) ==
    /\ k > QueryBrace
    /\ toks[k].Type \in {TokenIdent, TokenParenR}
    /\ toks[k + 1].Type \in {TokenIdent, TokenBraceR}

\* The input with a blank in place of the braces at k and what is between.
BracesLeftOut(k) ==
    SubSeq(lexer.input, 1, toks[k].from - 1) \o <<" ">>
        \o SubSeq(lexer.input, toks[k + 1].after, Len(lexer.input))

\* The input with an empty pair of braces behind token k.
BracesPutIn(k) ==
    SubSeq(lexer.input, 1, toks[k].after - 1) \o <<"{", " ", "}">>
        \o SubSeq(lexer.input, toks[k].after, Len(lexer.input))

\* The parse call on the text alone returns the tree this call has returned.
SameTree(text) ==
    \A p \in RunOf(ParseCall(text)) : p.status = "done" /\ p.result = result

\* C25: a field followed by an empty pair of braces is accepted, and the tree
\* is the one of the text in which the field is a leaf: leaving the empty
\* braces of a field out of an accepted text, or putting a pair behind a
\* field that has none, gives an accepted text with the same tree.
C25_EmptyBracesAsLeaf ==
    status = "done" =>
        \A k \in 1..(nEat - 1) :
            /\ EmptyBracesAt(k) => SameTree(BracesLeftOut(k))
            /\ LeafEndsAt(k) => SameTree(BracesPutIn(k))

\* ParseQuery has returned a tree for a text with a field that has empty
\* braces and a field that is a leaf.
C25_Witness ==
    /\ status = "done"
    /\ \E k \in 1..(nEat - 1) : EmptyBracesAt(k)
    /\ \E k \in 1..(nEat - 1) : LeafEndsAt(k) /\ toks[k].Type = TokenIdent

\* ParseQuery has returned a tree with a leaf field that has an argument.
LeafWithArgumentParsed ==
    /\ status = "done"
    /\ \E k \in 1..(nEat - 1) : LeafEndsAt(k) /\ toks[k].Type = TokenParenR

====
